---------------------------- MODULE Spec2Model ----------------------------
(***************************************************************************)
(* PQDict (src/pqdict.py): an indexed priority queue.  A list `_heap` of   *)
(* entries (dkey, pkey) laid out as a binary heap, and a dict `_position`  *)
(* from each dkey to the index of its entry in the list.                   *)
(*                                                                         *)
(* The list is 0-indexed in the source; the model keeps the source's       *)
(* indices and reads the TLA+ sequence through At/SetAt.                   *)
(*                                                                         *)
(* Specifications:                                                         *)
(*   Spec            the public calls on a queue built from distinct keys  *)
(*   SpecDup         the same calls on a queue built from a repeated key   *)
(*   SpecPushPop     Spec with pushpopitem                                 *)
(*   SpecCopy        pq.copy(), then one call on either queue              *)
(*   SpecTraverse    iteritems / iterkeys / itervalues stepped to the end  *)
(*   SpecInterleave  iteritems stepped between sets and deletes            *)
(*   SpecSort        sort_by_value on every bounded mapping                *)
(*   SpecSink        _sink and _heapify on every bounded list              *)
(*   SpecLoops       _sink and _swim one pass of their loops at a time     *)
(***************************************************************************)
EXTENDS Integers, Sequences, FiniteSets, TLC

\* Bounds of the model.
NumKeys == 3
MaxPkey == 1
MaxInit == 3
MaxDupInit == 2
MaxSinkLen == 4

Keys == 1..NumKeys
Pkeys == 0..MaxPkey

VARIABLES
    heap,           \* self._heap: sequence of entries
    position,       \* self._position: function from the indexed dkeys to indices
    create_entry,   \* self.create_entry: the entry class of this queue
    last,           \* the call made last: [op, args, found, ret, err]
    drain_start,    \* the stored (dkey, pkey) pairs when the current run of popitem calls began
    drain_out,      \* what the popitem calls of the current run returned, in order
    other,          \* the queue pq.copy() returned, once it was called
    it,             \* the generator iteritems / iterkeys / itervalues returned
    loop            \* the frame of a running _sink(top): its locals and where it stands

vars == <<heap, position, create_entry, last, drain_start, drain_out, other, it, loop>>

EntryClasses == {"_MinEntry", "_MaxEntry"}

\* PQDictEntry.__init__: an entry object of class cls
PQDictEntry(cls, dkey, pkey) == [dkey |-> dkey, pkey |-> pkey, cls |-> cls]

\* a < b on entries: Python dispatches to the left operand's __lt__
\* (_MinEntry.__lt__ : self.pkey < other.pkey, _MaxEntry.__lt__ : self.pkey > other.pkey)
Lt(a, b) ==
    IF a.cls = "_MinEntry" THEN a.pkey < b.pkey ELSE a.pkey > b.pkey

\* priority p1 is better (closer to the root) than p2 under the ordering of cls
Better(cls, p1, p2) == IF cls = "_MinEntry" THEN p1 < p2 ELSE p1 > p2

\* list and dict primitives
At(h, i) == h[i + 1]
SetAt(h, i, e) == [h EXCEPT ![i + 1] = e]
PopLast(h) == SubSeq(h, 1, Len(h) - 1)
PutPos(p, k, i) == [x \in (DOMAIN p) \cup {k} |-> IF x = k THEN i ELSE p[x]]
DelPos(p, k) == [x \in (DOMAIN p) \ {k} |-> p[x]]
EmptyPos == [x \in {} |-> 0]
Q(h, p) == [heap |-> h, position |-> p]

\* (pos - 1) >> 1 : an arithmetic shift, -1 for pos = 0
ParentPos(pos) == (pos - 1) \div 2

-----------------------------------------------------------------------------
\* PQDict._swim(pos, top)

RECURSIVE SwimLoop(_, _, _, _)
SwimLoop(q, entry, pos, top) ==
    IF pos > top /\ Lt(entry, At(q.heap, ParentPos(pos)))
    THEN LET parent_pos == ParentPos(pos)
             parent_entry == At(q.heap, parent_pos)
         IN  SwimLoop(Q(SetAt(q.heap, pos, parent_entry),
                        PutPos(q.position, parent_entry.dkey, pos)),
                      entry, parent_pos, top)
    ELSE Q(SetAt(q.heap, pos, entry), PutPos(q.position, entry.dkey, pos))

Swim(q, pos, top) == SwimLoop(q, At(q.heap, pos), pos, top)

\* PQDict._sink(top)

\* the better child of pos ("not heap[child_pos] < heap[other_pos]" picks the right one)
\* faulty variant: always takes the left child
ChildPosLeft(h, pos) == 2 * pos + 1

ChildPos(h, pos) ==
    LET child_pos == 2 * pos + 1
        other_pos == child_pos + 1
    IN  IF other_pos < Len(h) /\ ~Lt(At(h, child_pos), At(h, other_pos))
        THEN other_pos ELSE child_pos

\* faulty variant: moves a child up without writing its index
RECURSIVE SinkLoopNoIndex(_, _)
SinkLoopNoIndex(q, pos) ==
    IF 2 * pos + 1 < Len(q.heap)
    THEN LET child_pos == ChildPos(q.heap, pos)
             child_entry == At(q.heap, child_pos)
         IN  SinkLoopNoIndex(Q(SetAt(q.heap, pos, child_entry), q.position), child_pos)
    ELSE [q |-> q, pos |-> pos]

RECURSIVE SinkLoop(_, _)
SinkLoop(q, pos) ==
    IF 2 * pos + 1 < Len(q.heap)
    THEN LET child_pos == ChildPos(q.heap, pos)
             child_entry == At(q.heap, child_pos)
         IN  SinkLoop(Q(SetAt(q.heap, pos, child_entry),
                        PutPos(q.position, child_entry.dkey, pos)),
                      child_pos)
    ELSE [q |-> q, pos |-> pos]

\* faulty variant: the final swim runs up to the root, not up to top
SinkSwimsToRoot(q, top) ==
    LET entry == At(q.heap, top)
        r == SinkLoop(q, top)
        placed == Q(SetAt(r.q.heap, r.pos, entry),
                    PutPos(r.q.position, entry.dkey, r.pos))
    IN  Swim(placed, r.pos, 0)

Sink(q, top) ==
    LET entry == At(q.heap, top)
        r == SinkLoop(q, top)
        placed == Q(SetAt(r.q.heap, r.pos, entry),
                    PutPos(r.q.position, entry.dkey, r.pos))
    IN  Swim(placed, r.pos, top)

\* _sink and _swim one pass of their `while` at a time.  A frame is the locals
\* of the running call: fn and arg name the call (_sink(top) or _swim(pos)),
\* start is the queue it was called on, pc the loop it stands in ("sink",
\* "swim", or "done" after the return), pos and entry the locals of that name,
\* prev the value pos had before the last pass of the loop (<<>> before the
\* first), sunk and swum the passes made that moved an entry.
SinkFrame(q, top) ==
    [fn |-> "_sink", arg |-> top, start |-> q, pc |-> "sink", top |-> top,
     pos |-> top, entry |-> At(q.heap, top), prev |-> <<>>, sunk |-> 0, swum |-> 0]

SwimFrame(q, pos, top) ==
    [fn |-> "_swim", arg |-> pos, start |-> q, pc |-> "swim", top |-> top,
     pos |-> pos, entry |-> At(q.heap, pos), prev |-> <<>>, sunk |-> 0, swum |-> 0]

\* one test of `while child_pos < endpos` in _sink: its body, or the statements
\* after the loop up to the first test of the loop in _swim(pos, top)
\* faulty variant: the body does not go to the next level (pos = child_pos)
SinkPassStays(f, q) ==
    IF 2 * f.pos + 1 < Len(q.heap)
    THEN LET child_pos == ChildPos(q.heap, f.pos)
             child_entry == At(q.heap, child_pos)
         IN  [f |-> [f EXCEPT !.prev = <<f.pos>>, !.sunk = f.sunk + 1],
              q |-> Q(SetAt(q.heap, f.pos, child_entry),
                      PutPos(q.position, child_entry.dkey, f.pos))]
    ELSE [f |-> [f EXCEPT !.pc = "swim", !.prev = <<>>],
          q |-> Q(SetAt(q.heap, f.pos, f.entry),
                  PutPos(q.position, f.entry.dkey, f.pos))]

SinkPass(f, q) ==
    IF 2 * f.pos + 1 < Len(q.heap)
    THEN LET child_pos == ChildPos(q.heap, f.pos)
             child_entry == At(q.heap, child_pos)
         IN  [f |-> [f EXCEPT !.pos = child_pos, !.prev = <<f.pos>>,
                              !.sunk = f.sunk + 1],
              q |-> Q(SetAt(q.heap, f.pos, child_entry),
                      PutPos(q.position, child_entry.dkey, f.pos))]
    ELSE [f |-> [f EXCEPT !.pc = "swim", !.prev = <<>>],
          q |-> Q(SetAt(q.heap, f.pos, f.entry),
                  PutPos(q.position, f.entry.dkey, f.pos))]

\* one test of `while pos > top` in _swim: its body up to `continue`, or the
\* break (or the end of the loop) and the statements after the loop
SwimPass(f, q) ==
    IF f.pos > f.top /\ Lt(f.entry, At(q.heap, ParentPos(f.pos)))
    THEN LET parent_pos == ParentPos(f.pos)
             parent_entry == At(q.heap, parent_pos)
         IN  [f |-> [f EXCEPT !.pos = parent_pos, !.prev = <<f.pos>>,
                              !.swum = f.swum + 1],
              q |-> Q(SetAt(q.heap, f.pos, parent_entry),
                      PutPos(q.position, parent_entry.dkey, f.pos))]
    ELSE [f |-> [f EXCEPT !.pc = "done"],
          q |-> Q(SetAt(q.heap, f.pos, f.entry),
                  PutPos(q.position, f.entry.dkey, f.pos))]

\* PQDict._heapify: sink every pos of reversed(range(n//2))
RECURSIVE HeapifyFrom(_, _)
HeapifyFrom(q, pos) ==
    IF pos < 0 THEN q ELSE HeapifyFrom(Sink(q, pos), pos - 1)

Heapify(q) == HeapifyFrom(q, (Len(q.heap) \div 2) - 1)

-----------------------------------------------------------------------------
\* PQDict.__init__(*args, **kwargs): every pair is appended in turn, the pairs
\* of the positional source first and the keyword items after them, and
\* _position[dkey] is assigned the index of the pair just appended; then _heapify.
Construct(cls, args, kwargs) ==
    LET pairs == args \o kwargs
        h == [i \in 1..Len(pairs) |-> PQDictEntry(cls, pairs[i][1], pairs[i][2])]
        lastIndex(k) == CHOOSE i \in 1..Len(pairs) :
                            /\ pairs[i][1] = k
                            /\ \A j \in (i + 1)..Len(pairs) : pairs[j][1] # k
        p == [k \in {pairs[i][1] : i \in 1..Len(pairs)} |-> lastIndex(k) - 1]
    IN  Heapify(Q(h, p))

\* the result of a call: the queue it leaves, what it returns (<<>> for None or
\* nothing) and the exception it raises ("" for none)
Result(q, ret, err) == [q |-> q, ret |-> ret, err |-> err]

\* faulty variant: sinks when the better child is not worse (<= for <)
SinkOrSwimNonStrict(q, pos) ==
    LET h == q.heap
        parent_pos == ParentPos(pos)
    IN  IF parent_pos > -1 /\ Lt(At(h, pos), At(h, parent_pos))
        THEN Swim(q, pos, 0)
        ELSE IF 2 * pos + 1 < Len(h)
             THEN IF ~Lt(At(h, pos), At(h, ChildPos(h, pos)))
                  THEN Sink(q, pos) ELSE q
             ELSE q

\* __setitem__, __delitem__ and pop: "bubble up or down depending on pkeys of
\* parent and children" (the same statements in the three methods)
SinkOrSwim(q, pos) ==
    LET h == q.heap
        parent_pos == ParentPos(pos)
    IN  IF parent_pos > -1 /\ Lt(At(h, pos), At(h, parent_pos))
        THEN Swim(q, pos, 0)
        ELSE IF 2 * pos + 1 < Len(h)
             THEN IF Lt(At(h, ChildPos(h, pos)), At(h, pos))
                  THEN Sink(q, pos) ELSE q
             ELSE q

\* PQDict.__getitem__(dkey)
GetItem(q, dkey) ==
    IF dkey \in DOMAIN q.position
    THEN Result(q, <<At(q.heap, q.position[dkey]).pkey>>, "")
    ELSE Result(q, <<>>, "KeyError")

\* PQDict.__setitem__(dkey, pkey)
\* faulty variant: the update branch does not assign the pkey
SetItemKeepsPkey(q, cls, dkey, pkey) ==
    IF dkey \notin DOMAIN q.position
    THEN LET n == Len(q.heap)
         IN  Result(Swim(Q(Append(q.heap, PQDictEntry(cls, dkey, pkey)),
                           PutPos(q.position, dkey, n)), n, 0), <<>>, "")
    ELSE Result(SinkOrSwim(q, q.position[dkey]), <<>>, "")

SetItem(q, cls, dkey, pkey) ==
    IF dkey \notin DOMAIN q.position
    THEN LET n == Len(q.heap)
         IN  Result(Swim(Q(Append(q.heap, PQDictEntry(cls, dkey, pkey)),
                           PutPos(q.position, dkey, n)), n, 0), <<>>, "")
    ELSE LET pos == q.position[dkey]
         IN  Result(SinkOrSwim(Q([q.heap EXCEPT ![pos + 1].pkey = pkey], q.position),
                               pos), <<>>, "")

\* the body shared by __delitem__ and pop once position.pop(dkey) gave pos
\* faulty variant: dkey is not popped from the index
RemoveKeepsIndex(q, dkey, pos) ==
    LET end == At(q.heap, Len(q.heap) - 1)
        h1 == PopLast(q.heap)
    IN  IF pos # Len(q.heap) - 1
        THEN SinkOrSwim(Q(SetAt(h1, pos, end), PutPos(q.position, end.dkey, pos)), pos)
        ELSE Q(h1, q.position)

Remove(q, dkey, pos) ==
    LET p1 == DelPos(q.position, dkey)
        end == At(q.heap, Len(q.heap) - 1)
        h1 == PopLast(q.heap)
    IN  IF pos # Len(q.heap) - 1          \* end is not entry_to_delete
        THEN SinkOrSwim(Q(SetAt(h1, pos, end), PutPos(p1, end.dkey, pos)), pos)
        ELSE Q(h1, p1)

\* PQDict.__delitem__(dkey)
\* faulty variant: overwrites the root's slot whatever dkey's index is
DelItemAtRoot(q, dkey) ==
    IF dkey \notin DOMAIN q.position
    THEN Result(q, <<>>, "KeyError")
    ELSE Result(Remove(q, dkey, 0), <<>>, "")

DelItem(q, dkey) ==
    IF dkey \notin DOMAIN q.position
    THEN Result(q, <<>>, "KeyError")
    ELSE Result(Remove(q, dkey, q.position[dkey]), <<>>, "")

\* PQDict.pop(dkey, default): default is <<>> when it is not given (__marker)
Pop(q, dkey, default) ==
    IF dkey \notin DOMAIN q.position
    THEN IF default = <<>> THEN Result(q, <<>>, "KeyError")
                           ELSE Result(q, default, "")
    ELSE LET pos == q.position[dkey]
             pkey == At(q.heap, pos).pkey
         IN  Result(Remove(q, dkey, pos), <<pkey>>, "")

\* PQDict.popitem()
\* faulty variant: the last entry is put at the root and not sunk
PopItemNoSink(q) ==
    IF q.heap = <<>>
    THEN Result(q, <<>>, "KeyError")
    ELSE LET end == At(q.heap, Len(q.heap) - 1)
             h1 == PopLast(q.heap)
             entry == IF h1 # <<>> THEN At(h1, 0) ELSE end
             q2 == IF h1 # <<>>
                   THEN Q(SetAt(h1, 0, end), PutPos(q.position, end.dkey, 0))
                   ELSE Q(h1, q.position)
         IN  IF entry.dkey \in DOMAIN q2.position
             THEN Result(Q(q2.heap, DelPos(q2.position, entry.dkey)),
                         <<entry.dkey, entry.pkey>>, "")
             ELSE Result(q2, <<>>, "KeyError")

\* faulty variant: extracts the last entry instead of the root
PopItemReturnsEnd(q) ==
    IF q.heap = <<>>
    THEN Result(q, <<>>, "KeyError")
    ELSE LET end == At(q.heap, Len(q.heap) - 1)
             h1 == PopLast(q.heap)
         IN  Result(Q(h1, DelPos(q.position, end.dkey)), <<end.dkey, end.pkey>>, "")

PopItem(q) ==
    IF q.heap = <<>>
    THEN Result(q, <<>>, "KeyError")        \* IndexError from heap.pop(-1)
    ELSE LET end == At(q.heap, Len(q.heap) - 1)
             h1 == PopLast(q.heap)
             entry == IF h1 # <<>> THEN At(h1, 0) ELSE end
             q2 == IF h1 # <<>>
                   THEN Sink(Q(SetAt(h1, 0, end), PutPos(q.position, end.dkey, 0)), 0)
                   ELSE Q(h1, q.position)
         IN  IF entry.dkey \in DOMAIN q2.position
             THEN Result(Q(q2.heap, DelPos(q2.position, entry.dkey)),
                         <<entry.dkey, entry.pkey>>, "")
             ELSE Result(q2, <<>>, "KeyError")   \* del position[entry.dkey]

\* PQDict.additem(dkey, pkey)
\* faulty variant: assigns before it tests for the key
AddItemUnchecked(q, cls, dkey, pkey) ==
    LET r == SetItem(q, cls, dkey, pkey)
    IN  IF dkey \in DOMAIN q.position THEN Result(r.q, <<>>, "KeyError") ELSE r

AddItem(q, cls, dkey, pkey) ==
    IF dkey \in DOMAIN q.position
    THEN Result(q, <<>>, "KeyError")
    ELSE SetItem(q, cls, dkey, pkey)

\* PQDict.updateitem(dkey, new_pkey)
UpdateItem(q, cls, dkey, new_pkey) ==
    IF dkey \notin DOMAIN q.position
    THEN Result(q, <<>>, "KeyError")
    ELSE SetItem(q, cls, dkey, new_pkey)

\* PQDict.pushpopitem(dkey, pkey): after `heap = self._heap` the statement
\* `position = self_position` reads a name that is bound nowhere, so every call
\* raises NameError there, before an entry is made or the list is touched.
PushPopItem(q, cls, dkey, pkey) == Result(q, <<>>, "NameError")

\* PQDict.peek()
\* faulty variant: reads heap[-1] instead of heap[0]
PeekLast(q) ==
    IF q.heap = <<>>
    THEN Result(q, <<>>, "KeyError")
    ELSE LET entry == At(q.heap, Len(q.heap) - 1)
         IN  Result(q, <<entry.dkey, entry.pkey>>, "")

Peek(q) ==
    IF q.heap = <<>>
    THEN Result(q, <<>>, "KeyError")
    ELSE LET entry == At(q.heap, 0)
         IN  Result(q, <<entry.dkey, entry.pkey>>, "")

\* PQDict.__copy__(): `other = self.__class__()` is a new empty PQDict, whose
\* create_entry is the class attribute; then a list of copies of the entries
\* (each copy has its entry's class) and a copy of the index.  `shared` is the
\* set of the dkeys whose entry object is one object in both queues.
DefaultEntry == "_MinEntry"

\* faulty variant: the list is new but holds the entry objects of the original
CopySharesEntries(q) ==
    [heap |-> q.heap, position |-> q.position, create_entry |-> DefaultEntry,
     shared |-> {q.heap[i].dkey : i \in 1..Len(q.heap)}]

Copy(q) ==
    [heap |-> [i \in 1..Len(q.heap) |->
                  PQDictEntry(q.heap[i].cls, q.heap[i].dkey, q.heap[i].pkey)],
     position |-> q.position, create_entry |-> DefaultEntry, shared |-> {}]

\* `heap[pos].pkey = pkey` executed on the entry of dkey in one queue, seen from
\* a list h of the other queue: the entry is changed in h too when it is shared
Assigned(h, shared, dkey, pkey) ==
    [i \in 1..Len(h) |->
        IF h[i].dkey = dkey /\ dkey \in shared THEN [h[i] EXCEPT !.pkey = pkey]
                                               ELSE h[i]]

\* PQDict.iteritems / iterkeys / itervalues: generator functions with the body
\*     try:  while True: yield self.popitem()[...]
\*     except KeyError: return
\* A generator g is [state, kind, out, mixed]: "active" from its creation until
\* its body returns, "finished" after; out is what it yielded, in order.
IterKinds == {"iteritems", "iterkeys", "itervalues"}

\* what the generator of this kind yields for the pair popitem returned
Yield(kind, pair) ==
    CASE kind = "iteritems" -> pair
      [] kind = "iterkeys" -> pair[1]
      [] kind = "itervalues" -> pair[2]

Iter(kind) == [state |-> "active", kind |-> kind, out |-> <<>>, mixed |-> FALSE]

\* next(g) on queue q: the generator and the queue it leaves, the pair popitem
\* returned, the value yielded (<<v>>), or StopIteration
\* faulty variant: the body returns after its first yield
IterNextOnce(g, q) ==
    IF g.state = "finished"
    THEN [g |-> g, q |-> q, item |-> <<>>, ret |-> <<>>, err |-> "StopIteration"]
    ELSE LET r == PopItem(q)
         IN  IF r.err = "" /\ g.out = <<>>
             THEN [g |-> [g EXCEPT !.out = Append(g.out, Yield(g.kind, r.ret))],
                   q |-> r.q, item |-> r.ret,
                   ret |-> <<Yield(g.kind, r.ret)>>, err |-> ""]
             ELSE [g |-> [g EXCEPT !.state = "finished"],
                   q |-> q, item |-> <<>>, ret |-> <<>>, err |-> "StopIteration"]

\* faulty variant: a finished generator runs its body again
IterNextResumes(g, q) ==
    LET r == PopItem(q)
    IN  IF r.err = ""
        THEN [g |-> [g EXCEPT !.state = "active",
                              !.out = Append(g.out, Yield(g.kind, r.ret))],
              q |-> r.q, item |-> r.ret,
              ret |-> <<Yield(g.kind, r.ret)>>, err |-> ""]
        ELSE [g |-> [g EXCEPT !.state = "finished"],
              q |-> r.q, item |-> <<>>, ret |-> <<>>, err |-> "StopIteration"]

IterNext(g, q) ==
    IF g.state = "finished"
    THEN [g |-> g, q |-> q, item |-> <<>>, ret |-> <<>>, err |-> "StopIteration"]
    ELSE LET r == PopItem(q)
         IN  IF r.err = ""
             THEN [g |-> [g EXCEPT !.out = Append(g.out, Yield(g.kind, r.ret))],
                   q |-> r.q, item |-> r.ret,
                   ret |-> <<Yield(g.kind, r.ret)>>, err |-> ""]
             ELSE [g |-> [g EXCEPT !.state = "finished"],     \* except KeyError: return
                   q |-> r.q, item |-> <<>>, ret |-> <<>>, err |-> "StopIteration"]

\* [item for item in g]: next(g) until StopIteration, on queue q
RECURSIVE ListOf(_, _)
ListOf(g, q) ==
    LET r == IterNext(g, q)
    IN  IF r.err # "" THEN r.g.out ELSE ListOf(r.g, r.q)

\* sort_by_value(mapping, reverse): PQDict.maxpq(mapping) if reverse, else
\* PQDict(mapping), then the list of its iteritems().  The mapping is the
\* sequence of its items in the order mapping.items() gives them.
\* faulty variant: the queue is a min queue whatever reverse is
SortByValueMin(mapping, reverse) ==
    ListOf(Iter("iteritems"), Construct(DefaultEntry, mapping, <<>>))

SortByValue(mapping, reverse) ==
    LET pq == IF reverse THEN Construct("_MaxEntry", mapping, <<>>)
                         ELSE Construct(DefaultEntry, mapping, <<>>)
    IN  ListOf(Iter("iteritems"), pq)

\* PQDict.__len__ and PQDict.__contains__
PQLen(q) == Len(q.heap)
Contains(q, dkey) == dkey \in DOMAIN q.position

-----------------------------------------------------------------------------
\* The state machine: one action per public method.

Self == Q(heap, position)

\* the (dkey, pkey) pairs held by the entries of a list
Pairs(h) == {<<h[i].dkey, h[i].pkey>> : i \in 1..Len(h)}

DistinctKeys(s) == \A i, j \in 1..Len(s) : s[i][1] = s[j][1] => i = j

\* what a call finds when it begins: for a call on dkey, whether dkey is indexed
\* and, where the call brings a pkey, whether dkey already has that pkey; for
\* peek and popitem, whether the list is empty
Found(dkey, pkey) ==
    IF dkey \notin DOMAIN position THEN "absent"
    ELSE IF <<At(heap, position[dkey]).pkey>> = pkey THEN "same" ELSE "present"
FoundTop == IF heap = <<>> THEN "empty" ELSE "nonempty"

\* no copy was made: pq.copy() was not called
NoCopy == [made |-> FALSE, heap |-> <<>>, position |-> EmptyPos,
           create_entry |-> "_MinEntry", shared |-> {}, on |-> ""]

\* no generator was made
NoIter == [state |-> "none", kind |-> "", out |-> <<>>, mixed |-> FALSE]

\* a call that is not a step of the generator, made while a generator exists:
\* the traversal is mixed with other calls, and what the generator yielded is
\* counted from this call on
Interleaved(g) ==
    IF g.state = "none" THEN g ELSE [g EXCEPT !.out = <<>>, !.mixed = TRUE]

\* no _sink is running
NoLoop == [pc |-> "idle"]

Constructed(cls, args, kwargs) ==
    LET q == Construct(cls, args, kwargs)
    IN  /\ heap = q.heap
        /\ position = q.position
        /\ create_entry = cls
        /\ last = [op |-> "__init__", args |-> <<>>, found |-> "empty",
                   ret |-> <<>>, err |-> ""]
        /\ drain_start = Pairs(q.heap)
        /\ drain_out = <<>>
        /\ other = NoCopy
        /\ it = NoIter
        /\ loop = NoLoop

\* PQDict(...), PQDict.minpq(...) or PQDict.maxpq(...): a positional source of
\* pairs and keyword items, all with distinct keys
Init ==
    \E cls \in EntryClasses :
    \E n \in 0..MaxInit :
    \E s \in [1..n -> Keys \X Pkeys] :
    \E m \in 0..n :
        /\ DistinctKeys(s)
        /\ Constructed(cls, SubSeq(s, 1, m), SubSeq(s, m + 1, n))

\* the effect of a call that is not popitem
Call(op, args, found, r) ==
    /\ heap' = r.q.heap
    /\ position' = r.q.position
    /\ last' = [op |-> op, args |-> args, found |-> found, ret |-> r.ret, err |-> r.err]
    /\ drain_start' = Pairs(r.q.heap)
    /\ drain_out' = <<>>
    /\ it' = Interleaved(it)
    /\ UNCHANGED <<create_entry, other, loop>>

getitem(dkey) ==
    Call("__getitem__", <<dkey>>, Found(dkey, <<>>), GetItem(Self, dkey))

setitem(dkey, pkey) ==
    Call("__setitem__", <<dkey, pkey>>, Found(dkey, <<pkey>>),
         SetItem(Self, create_entry, dkey, pkey))

delitem(dkey) ==
    Call("__delitem__", <<dkey>>, Found(dkey, <<>>), DelItem(Self, dkey))

pop(dkey, default) ==
    Call("pop", <<dkey>> \o default, Found(dkey, <<>>), Pop(Self, dkey, default))

additem(dkey, pkey) ==
    Call("additem", <<dkey, pkey>>, Found(dkey, <<pkey>>),
         AddItem(Self, create_entry, dkey, pkey))

updateitem(dkey, pkey) ==
    Call("updateitem", <<dkey, pkey>>, Found(dkey, <<pkey>>),
         UpdateItem(Self, create_entry, dkey, pkey))

peek == Call("peek", <<>>, FoundTop, Peek(Self))

popitem ==
    LET r == PopItem(Self)
    IN  /\ heap' = r.q.heap
        /\ position' = r.q.position
        /\ last' = [op |-> "popitem", args |-> <<>>, found |-> FoundTop,
                    ret |-> r.ret, err |-> r.err]
        /\ drain_start' = drain_start
        /\ drain_out' = IF r.err = "" THEN Append(drain_out, r.ret) ELSE drain_out
        /\ it' = Interleaved(it)
        /\ UNCHANGED <<create_entry, other, loop>>

\* the default given to pop: none, or a priority
Defaults == {<<>>, <<0>>}

Next ==
    \/ \E dkey \in Keys : getitem(dkey)
    \/ \E dkey \in Keys, pkey \in Pkeys : setitem(dkey, pkey)
    \/ \E dkey \in Keys : delitem(dkey)
    \/ \E dkey \in Keys, default \in Defaults : pop(dkey, default)
    \/ \E dkey \in Keys, pkey \in Pkeys : additem(dkey, pkey)
    \/ \E dkey \in Keys, pkey \in Pkeys : updateitem(dkey, pkey)
    \/ peek
    \/ popitem

Spec == Init /\ [][Next]_vars

\* Construction from input that repeats a key: a pair sequence with a repeated
\* key, or a positional source and keyword items that share a key (the keyword
\* items are a dict, so they do not repeat a key among themselves).
InitDup ==
    \E cls \in EntryClasses :
    \E n \in 0..MaxDupInit :
    \E s \in [1..n -> Keys \X Pkeys] :
    \E m \in 0..n :
        /\ ~DistinctKeys(s)
        /\ DistinctKeys(SubSeq(s, m + 1, n))
        /\ Constructed(cls, SubSeq(s, 1, m), SubSeq(s, m + 1, n))

SpecDup == InitDup /\ [][Next]_vars

-----------------------------------------------------------------------------
\* Destructive traversal: a generator is made and stepped with next().

\* pq.iteritems(), pq.iterkeys() or pq.itervalues(): the generator is made, its
\* body has not run
iter(kind) ==
    /\ it.state = "none"
    /\ it' = Iter(kind)
    /\ last' = [op |-> kind, args |-> <<>>, found |-> FoundTop,
                ret |-> <<>>, err |-> ""]
    /\ UNCHANGED <<heap, position, create_entry, drain_start, drain_out, other, loop>>

\* next(g): the body runs to its next yield or to its return
iter_next ==
    /\ it.state # "none"
    /\ LET r == IterNext(it, Self)
       IN  /\ heap' = r.q.heap
           /\ position' = r.q.position
           /\ it' = r.g
           /\ last' = [op |-> "next", args |-> <<>>, found |-> FoundTop,
                       ret |-> r.ret, err |-> r.err]
           /\ drain_start' = drain_start
           /\ drain_out' = IF r.err = "" THEN Append(drain_out, r.item) ELSE drain_out
    /\ UNCHANGED <<create_entry, other, loop>>

\* a traversal with no other call on the queue: list(pq.iteritems()) or a for
\* loop over the generator calls next() until StopIteration
NextTraverse ==
    \/ \E kind \in IterKinds : iter(kind)
    \/ iter_next

SpecTraverse == Init /\ [][NextTraverse]_vars

\* a traversal whose caller sets and deletes keys between the steps: the
\* generator pq.iteritems() made on a constructed queue, then next(),
\* pq[k] = p and del pq[k] in any order
InitIter ==
    \E cls \in EntryClasses :
    \E n \in 0..MaxInit :
    \E s \in [1..n -> Keys \X Pkeys] :
    \E m \in 0..n :
        LET q == Construct(cls, SubSeq(s, 1, m), SubSeq(s, m + 1, n))
            kind == "iteritems"
        IN  /\ DistinctKeys(s)
            /\ heap = q.heap
            /\ position = q.position
            /\ create_entry = cls
            /\ last = [op |-> kind, args |-> <<>>,
                       found |-> IF q.heap = <<>> THEN "empty" ELSE "nonempty",
                       ret |-> <<>>, err |-> ""]
            /\ drain_start = Pairs(q.heap)
            /\ drain_out = <<>>
            /\ other = NoCopy
            /\ it = Iter(kind)
            /\ loop = NoLoop

NextInterleave ==
    \/ iter_next
    \/ \E dkey \in Keys, pkey \in Pkeys : setitem(dkey, pkey)
    \/ \E dkey \in Keys : delitem(dkey)

SpecInterleave == InitIter /\ [][NextInterleave]_vars

-----------------------------------------------------------------------------
\* sort_by_value: a call on a mapping of distinct keys, and its return.  The
\* function works on a queue of its own, so no queue is held in the state.

InitSort ==
    \E n \in 0..MaxInit :
    \E mapping \in [1..n -> Keys \X Pkeys] :
    \E reverse \in BOOLEAN :
        /\ DistinctKeys(mapping)
        /\ last = [op |-> "sort_by_value", args |-> <<mapping, reverse>>,
                   found |-> "called", ret |-> <<>>, err |-> ""]
        /\ heap = <<>>
        /\ position = EmptyPos
        /\ create_entry = DefaultEntry
        /\ drain_start = {}
        /\ drain_out = <<>>
        /\ other = NoCopy
        /\ it = NoIter
        /\ loop = NoLoop

sort_by_value ==
    /\ last.op = "sort_by_value"
    /\ last.found = "called"
    /\ last' = [last EXCEPT !.found = "returned",
                            !.ret = SortByValue(last.args[1], last.args[2])]
    /\ UNCHANGED <<heap, position, create_entry, drain_start, drain_out, other, it, loop>>

SpecSort == InitSort /\ [][sort_by_value]_vars

-----------------------------------------------------------------------------
\* _sink and _heapify on any list: the list holds entries of one class with
\* distinct dkeys, their pkeys in any order, and the index agrees with it.  The
\* code hashes dkeys and never compares them, so the entries are named by the
\* slots they start in: the entry that starts in slot i has dkey i + 1.

\* i is top or lies below it in the tree
RECURSIVE InSubtree(_, _)
InSubtree(i, top) == i = top \/ (i > top /\ InSubtree(ParentPos(i), top))

\* every entry below top in the subtree of top is not better than its parent
SubtreeOrdered(q, cls, top) ==
    \A i \in 0..(Len(q.heap) - 1) :
        (i # top /\ InSubtree(i, top)) =>
            ~Better(cls, At(q.heap, i).pkey, At(q.heap, ParentPos(i)).pkey)

\* what _sink(top) finds: heap-ordered subtrees under top, or not
FoundSubtrees(top) ==
    IF /\ SubtreeOrdered(Self, create_entry, 2 * top + 1)
       /\ SubtreeOrdered(Self, create_entry, 2 * top + 2)
    THEN "subheaps" ELSE "unordered"

InitSink ==
    \E cls \in EntryClasses :
    \E n \in 0..MaxSinkLen :
    \E pkeys \in [1..n -> Pkeys] :
        /\ heap = [i \in 1..n |-> PQDictEntry(cls, i, pkeys[i])]
        /\ position = [k \in 1..n |-> k - 1]
        /\ create_entry = cls
        /\ last = [op |-> "", args |-> <<>>, found |-> "", ret |-> <<>>, err |-> ""]
        /\ drain_start = {}
        /\ drain_out = <<>>
        /\ other = NoCopy
        /\ it = NoIter
        /\ loop = NoLoop

\* the state a private call leaves
Private(op, args, found, q) ==
    /\ heap' = q.heap
    /\ position' = q.position
    /\ last' = [op |-> op, args |-> args, found |-> found, ret |-> <<>>, err |-> ""]
    /\ UNCHANGED <<create_entry, drain_start, drain_out, other, it, loop>>

sink(top) ==
    /\ top < Len(heap)
    /\ Private("_sink", <<top>>, FoundSubtrees(top), Sink(Self, top))

heapify == Private("_heapify", <<>>, "array", Heapify(Self))

NextSink ==
    \/ \E top \in 0..(MaxSinkLen - 1) : sink(top)
    \/ heapify

SpecSink == InitSink /\ [][NextSink]_vars

-----------------------------------------------------------------------------
\* _sink(top) and _swim(pos) on any list, run one pass of their loops at a
\* time; a call begins when no call is running.

call_sink(top) ==
    /\ loop.pc \in {"idle", "done"}
    /\ top < Len(heap)
    /\ loop' = SinkFrame(Self, top)
    /\ UNCHANGED <<heap, position, create_entry, last, drain_start, drain_out, other, it>>

call_swim(pos) ==
    /\ loop.pc \in {"idle", "done"}
    /\ pos < Len(heap)
    /\ loop' = SwimFrame(Self, pos, 0)
    /\ UNCHANGED <<heap, position, create_entry, last, drain_start, drain_out, other, it>>

\* the queue and the frame a pass leaves
Passed(r) ==
    /\ heap' = r.q.heap
    /\ position' = r.q.position
    /\ loop' = r.f
    /\ UNCHANGED <<create_entry, last, drain_start, drain_out, other, it>>

sink_pass ==
    /\ loop.pc = "sink"
    /\ Passed(SinkPass(loop, Self))

swim_pass ==
    /\ loop.pc = "swim"
    /\ Passed(SwimPass(loop, Self))

NextLoops ==
    \/ \E top \in 0..(MaxSinkLen - 1) : call_sink(top)
    \/ \E pos \in 0..(MaxSinkLen - 1) : call_swim(pos)
    \/ sink_pass
    \/ swim_pass

SpecLoops == InitSink /\ [][NextLoops]_vars

-----------------------------------------------------------------------------
\* The calls of Next and pushpopitem.

pushpopitem(dkey, pkey) ==
    Call("pushpopitem", <<dkey, pkey>>, Found(dkey, <<pkey>>),
         PushPopItem(Self, create_entry, dkey, pkey))

NextPushPop ==
    \/ Next
    \/ \E dkey \in Keys, pkey \in Pkeys : pushpopitem(dkey, pkey)

SpecPushPop == Init /\ [][NextPushPop]_vars

-----------------------------------------------------------------------------
\* A queue and its copy: pq.copy() on a constructed queue, then one call on
\* either queue.  other.on names the queue that call was made on.

OtherQ == Q(other.heap, other.position)

CopyOps == {"__setitem__", "__delitem__", "popitem"}

\* the call op on queue q, whose entry class is cls
Apply(op, q, cls, dkey, pkey) ==
    CASE op = "__setitem__" -> SetItem(q, cls, dkey, pkey)
      [] op = "__delitem__" -> DelItem(q, dkey)
      [] op = "popitem" -> PopItem(q)

ArgsOf(op, dkey, pkey) ==
    CASE op = "__setitem__" -> <<dkey, pkey>>
      [] op = "__delitem__" -> <<dkey>>
      [] op = "popitem" -> <<>>

FoundIn(q, op, dkey, pkey) ==
    IF op = "popitem" THEN (IF q.heap = <<>> THEN "empty" ELSE "nonempty")
    ELSE IF dkey \notin DOMAIN q.position THEN "absent"
    ELSE IF op = "__setitem__" /\ At(q.heap, q.position[dkey]).pkey = pkey THEN "same"
    ELSE "present"

copy ==
    /\ ~other.made
    /\ LET c == Copy(Self)
       IN  other' = [made |-> TRUE, heap |-> c.heap, position |-> c.position,
                     create_entry |-> c.create_entry, shared |-> c.shared,
                     on |-> ""]
    /\ last' = [op |-> "copy", args |-> <<>>, found |-> FoundTop,
                ret |-> <<>>, err |-> ""]
    /\ UNCHANGED <<heap, position, create_entry, drain_start, drain_out, it, loop>>

\* a call on the original after the copy was made
on_self(op, dkey, pkey) ==
    /\ other.made
    /\ other.on = ""
    /\ LET r == Apply(op, Self, create_entry, dkey, pkey)
           assigned == op = "__setitem__" /\ dkey \in DOMAIN position
       IN  /\ heap' = r.q.heap
           /\ position' = r.q.position
           /\ last' = [op |-> op, args |-> ArgsOf(op, dkey, pkey),
                       found |-> FoundIn(Self, op, dkey, pkey),
                       ret |-> r.ret, err |-> r.err]
           /\ other' = [other EXCEPT
                           !.heap = IF assigned
                                    THEN Assigned(other.heap, other.shared, dkey, pkey)
                                    ELSE other.heap,
                           !.shared = other.shared \cap DOMAIN r.q.position,
                           !.on = "self"]
           /\ drain_start' = Pairs(r.q.heap)
           /\ drain_out' = <<>>
    /\ UNCHANGED <<create_entry, it, loop>>

\* a call on the copy
on_other(op, dkey, pkey) ==
    /\ other.made
    /\ other.on = ""
    /\ LET r == Apply(op, OtherQ, other.create_entry, dkey, pkey)
           assigned == op = "__setitem__" /\ dkey \in DOMAIN other.position
       IN  /\ other' = [other EXCEPT
                           !.heap = r.q.heap,
                           !.position = r.q.position,
                           !.shared = other.shared \cap DOMAIN r.q.position,
                           !.on = "other"]
           /\ heap' = IF assigned THEN Assigned(heap, other.shared, dkey, pkey) ELSE heap
           /\ last' = [op |-> op, args |-> ArgsOf(op, dkey, pkey),
                       found |-> FoundIn(OtherQ, op, dkey, pkey),
                       ret |-> r.ret, err |-> r.err]
    /\ UNCHANGED <<position, create_entry, drain_start, drain_out, it, loop>>

NextCopy ==
    \/ copy
    \/ \E op \in CopyOps, dkey \in Keys, pkey \in Pkeys : on_self(op, dkey, pkey)
    \/ \E op \in CopyOps, dkey \in Keys, pkey \in Pkeys : on_other(op, dkey, pkey)

SpecCopy == Init /\ [][NextCopy]_vars

-----------------------------------------------------------------------------
\* Properties.

\* the state a step leaves
Post == Q(heap', position')

\* lookup(k): <<pkey>>, or <<>> when it raises
Lookup(q, k) == GetItem(q, k).ret

\* key k has the same membership and priority before and after the step
Kept(k) ==
    /\ Contains(Self, k) <=> Contains(Post, k)
    /\ Lookup(Self, k) = Lookup(Post, k)

\* C1: for every index i >= 1 the entry heap[i] is not better than its parent
\* heap[(i-1)//2] under the queue's ordering, in every state reached from a
\* construction over distinct keys by set, additem, updateitem, delete,
\* pop(key) and popitem.
HeapProperty ==
    \A i \in 1..(Len(heap) - 1) :
        ~Better(create_entry, At(heap, i).pkey, At(heap, (i - 1) \div 2).pkey)

\* a full tree after a removal, the root strictly better than a child
HeapPropertyWitness ==
    /\ last.op \in {"__delitem__", "pop", "popitem"}
    /\ last.err = ""
    /\ Len(heap) = 2
    /\ Better(create_entry, At(heap, 0).pkey, At(heap, 1).pkey)

\* C2: position[k] = i iff heap[i].dkey = k, no key occupies two slots, and
\* len(heap) = len(position), in every state reached from a construction over
\* distinct keys.
IndexBijection ==
    /\ \A k \in DOMAIN position :
           /\ position[k] \in 0..(Len(heap) - 1)
           /\ At(heap, position[k]).dkey = k
    /\ \A i \in 0..(Len(heap) - 1) :
           /\ At(heap, i).dkey \in DOMAIN position
           /\ position[At(heap, i).dkey] = i
    /\ \A i, j \in 0..(Len(heap) - 1) : At(heap, i).dkey = At(heap, j).dkey => i = j
    /\ Len(heap) = Cardinality(DOMAIN position)

\* entries were moved by a sink from the root: popitem left two or more entries
IndexBijectionWitness ==
    /\ last.op = "popitem"
    /\ last.err = ""
    /\ Len(heap) >= 2
    /\ position[At(heap, 1).dkey] = 1

\* C3: the bijection and size coherence (one slot per stored key, len(heap) =
\* len(position), len(pq) = the number of keys k with k in pq) hold when the
\* queue is constructed from input containing duplicate keys, and after any
\* later operation.
BijectionWithDuplicateKeys ==
    /\ PQLen(Self) = Cardinality({k \in Keys : Contains(Self, k)})
    /\ Len(heap) = Cardinality(DOMAIN position)
    /\ \A k \in Keys :
           Cardinality({i \in 0..(Len(heap) - 1) : At(heap, i).dkey = k})
               = IF Contains(Self, k) THEN 1 ELSE 0

\* C4: from a queue of n entries with distinct keys, n successive popitem calls
\* all succeed, return every stored pair exactly once, each priority not better
\* than the one returned before it, and the (n+1)-th popitem raises KeyError.
SortedExtraction ==
    /\ \A i, j \in 1..Len(drain_out) :
           i < j => ~Better(create_entry, drain_out[j][2], drain_out[i][2])
    /\ {drain_out[i] : i \in 1..Len(drain_out)} \cup Pairs(heap) = drain_start
    /\ Len(drain_out) + Len(heap) = Cardinality(drain_start)
    /\ last.op = "popitem" =>
           /\ last.found = "nonempty" => last.err = "" /\ drain_out # <<>>
           /\ last.found = "empty" =>
                  /\ last.err = "KeyError"
                  /\ Len(drain_out) = Cardinality(drain_start)

\* the 4th popitem on a queue of 3 entries whose priorities are not all equal
SortedExtractionWitness ==
    /\ last.op = "popitem"
    /\ last.err = "KeyError"
    /\ Len(drain_out) = 3
    /\ drain_out[1][2] # drain_out[3][2]

\* C5: peek on a non-empty queue returns a pair (k, p) with p = lookup(k) such
\* that no stored key has a priority better than p, and leaves the heap array,
\* the position index and the size unchanged; after a key is updated to a
\* priority better than all others, peek returns that key.
PeekTopStep ==
    /\ (last'.op = "peek" /\ heap # <<>>) =>
           /\ last'.err = ""
           /\ Len(last'.ret) = 2
           /\ Lookup(Self, last'.ret[1]) = <<last'.ret[2]>>
           /\ \A k \in Keys :
                  Contains(Self, k) =>
                      ~Better(create_entry, Lookup(Self, k)[1], last'.ret[2])
           /\ heap' = heap
           /\ position' = position
    /\ (/\ last'.op \in {"__setitem__", "updateitem"}
        /\ last'.err = ""
        /\ \A k \in Keys \ {last'.args[1]} :
               Contains(Post, k) =>
                   Better(create_entry, last'.args[2], Lookup(Post, k)[1]))
       => Peek(Post).ret = last'.args

PeekTop == [][PeekTopStep]_vars

\* peek on a full queue that holds a priority other than the one returned
PeekTopWitness ==
    /\ last.op = "peek"
    /\ last.err = ""
    /\ Len(heap) = 3
    /\ \E i \in 1..Len(heap) : heap[i].pkey # last.ret[2]

\* C6: after pq[k] = p, lookup(k) returns p and k is a member; every other key
\* keeps its membership and priority; the size grows by one when k was absent
\* and is unchanged when k was present; only the insertion of an absent key
\* grows the array.
UpsertStep ==
    /\ last'.op = "__setitem__" =>
           LET k == last'.args[1]
               p == last'.args[2]
           IN  /\ last'.err = ""
               /\ Contains(Post, k)
               /\ Lookup(Post, k) = <<p>>
               /\ \A k2 \in Keys \ {k} : Kept(k2)
               /\ PQLen(Post) = PQLen(Self) + (IF Contains(Self, k) THEN 0 ELSE 1)
    /\ PQLen(Post) > PQLen(Self) =>
           /\ last'.op \in {"__setitem__", "additem"}
           /\ last'.found = "absent"
           /\ PQLen(Post) = PQLen(Self) + 1

Upsert == [][UpsertStep]_vars

\* a stored key was given another priority, and two more keys are stored
UpsertWitness ==
    /\ last.op = "__setitem__"
    /\ last.found = "present"
    /\ Len(heap) = 3

\* C7: delete(k) and pop(k) on a stored key remove exactly that key, decrease
\* the size by one and leave every other key's membership and priority
\* unchanged; pop(k) returns the priority k had; pop(k, default) on an absent
\* key returns default and changes nothing.
RemovalStep ==
    /\ (last'.op \in {"__delitem__", "pop"} /\ last'.found # "absent") =>
           LET k == last'.args[1]
           IN  /\ last'.err = ""
               /\ ~Contains(Post, k)
               /\ GetItem(Post, k).err = "KeyError"
               /\ PQLen(Post) = PQLen(Self) - 1
               /\ \A k2 \in Keys \ {k} : Kept(k2)
               /\ last'.op = "pop" => last'.ret = Lookup(Self, k)
    /\ (last'.op = "pop" /\ last'.found = "absent" /\ Len(last'.args) = 2) =>
           /\ last'.err = ""
           /\ last'.ret = <<last'.args[2]>>
           /\ heap' = heap
           /\ position' = position

Removal == [][RemovalStep]_vars

\* pop(k) took a key out of a queue of three and returned its priority
RemovalWitness ==
    /\ last.op = "pop"
    /\ last.found = "present"
    /\ Len(last.ret) = 1
    /\ Len(heap) = 2

\* C8: popitem on a non-empty queue returns the pair peek would have returned
\* just before it; afterwards that key is not a member, the size is one smaller
\* and every other key keeps its membership and priority.
PopItemStep ==
    (last'.op = "popitem" /\ heap # <<>>) =>
        /\ last'.err = ""
        /\ last'.ret = Peek(Self).ret
        /\ ~Contains(Post, last'.ret[1])
        /\ PQLen(Post) = PQLen(Self) - 1
        /\ \A k2 \in Keys \ {last'.ret[1]} : Kept(k2)

PopItemTop == [][PopItemStep]_vars

\* popitem on a queue of three returned a priority other than one that is left
PopItemTopWitness ==
    /\ last.op = "popitem"
    /\ last.err = ""
    /\ Len(heap) = 2
    /\ \E i \in 1..Len(heap) : heap[i].pkey # last.ret[2]

\* C9: additem on a key already present, updateitem / delete / pop(key) without
\* default / lookup on an absent key, and popitem / peek on an empty queue each
\* raise an error and leave the heap array and the position index as they were.
FailedStep ==
    /\ (last'.op = "additem" /\ last'.found # "absent") => last'.err = "KeyError"
    /\ (/\ last'.op \in {"updateitem", "__delitem__", "__getitem__"}
        /\ last'.found = "absent") => last'.err = "KeyError"
    /\ (last'.op = "pop" /\ last'.found = "absent" /\ Len(last'.args) = 1)
           => last'.err = "KeyError"
    /\ (last'.op \in {"popitem", "peek"} /\ last'.found = "empty")
           => last'.err = "KeyError"
    /\ last'.err # "" => heap' = heap /\ position' = position

FailedCallsDoNotMutate == [][FailedStep]_vars

\* additem was refused for a stored key that has another priority
FailedCallsWitness ==
    /\ last.op = "additem"
    /\ last.err = "KeyError"
    /\ last.found = "present"
    /\ Len(heap) = 3

\* C10: setting a stored key's priority to the value it already has (via set
\* or updateitem) leaves the order of the entries in the heap array, the
\* position index and the size unchanged, also when other entries have the same
\* priority.
IdempotentStep ==
    (last'.op \in {"__setitem__", "updateitem"} /\ last'.found = "same") =>
        /\ last'.err = ""
        /\ heap' = heap
        /\ position' = position

UpdateIdempotence == [][IdempotentStep]_vars

\* the root of a queue of three was set to its own priority, which a child shares
UpdateIdempotenceWitness ==
    /\ last.op \in {"__setitem__", "updateitem"}
    /\ last.found = "same"
    /\ Len(heap) = 3
    /\ position[last.args[1]] = 0
    /\ \E i \in 2..Len(heap) : heap[i].pkey = last.args[2]

-----------------------------------------------------------------------------
\* Properties of a queue value q whose entries are ordered as class cls orders.

HeapOrdered(q, cls) ==
    \A i \in 1..(Len(q.heap) - 1) :
        ~Better(cls, At(q.heap, i).pkey, At(q.heap, (i - 1) \div 2).pkey)

Indexed(q) ==
    /\ \A k \in DOMAIN q.position :
           /\ q.position[k] \in 0..(Len(q.heap) - 1)
           /\ At(q.heap, q.position[k]).dkey = k
    /\ \A i \in 0..(Len(q.heap) - 1) :
           /\ At(q.heap, i).dkey \in DOMAIN q.position
           /\ q.position[At(q.heap, i).dkey] = i
    /\ Len(q.heap) = Cardinality(DOMAIN q.position)

\* the same member keys with the same priorities
SameContent(q1, q2) ==
    \A k \in Keys :
        /\ Contains(q1, k) <=> Contains(q2, k)
        /\ Lookup(q1, k) = Lookup(q2, k)

\* C11: for any reachable state and any key k not stored, inserting k with any
\* priority and then deleting k restores the size, the set of member keys and
\* each remaining key's priority, and the result satisfies the heap property
\* and the index bijection (the order of the array may differ).
InsertDeleteInverse ==
    \A k \in Keys \ DOMAIN position :
    \A p \in Pkeys :
        LET ins == SetItem(Self, create_entry, k, p)
            del == DelItem(ins.q, k)
        IN  /\ ins.err = ""
            /\ Contains(ins.q, k)
            /\ del.err = ""
            /\ PQLen(del.q) = PQLen(Self)
            /\ SameContent(del.q, Self)
            /\ HeapOrdered(del.q, create_entry)
            /\ Indexed(del.q)

\* a delete left two entries, and an absent key whose insertion swims to the
\* root, so that deleting it moves the last entry into the root's slot
InsertDeleteInverseWitness ==
    /\ Len(heap) = 2
    /\ last.op = "__delitem__"
    /\ last.err = ""
    /\ \E k \in Keys \ DOMAIN position :
       \E p \in Pkeys :
           LET ins == SetItem(Self, create_entry, k, p)
           IN  /\ At(ins.q.heap, 0).dkey = k
               /\ DelItem(ins.q, k).q = Self

\* the state a step leaves in the copy
OtherPost == Q(other'.heap, other'.position)

\* C12: copy() returns a queue with the same keys and priorities as the
\* original and leaves the original as it was; afterwards a set, delete or
\* popitem on the copy changes no key's membership or priority in the
\* original, and one on the original changes none in the copy.
CopyIndependenceStep ==
    /\ (~other.made /\ other'.made) =>
           /\ SameContent(OtherPost, Self)
           /\ PQLen(OtherPost) = PQLen(Self)
           /\ Indexed(OtherPost)
           /\ Post = Self
    /\ (other.on = "" /\ other'.on = "other") =>
           /\ \A k \in Keys : Kept(k)
           /\ PQLen(Post) = PQLen(Self)
    /\ (other.on = "" /\ other'.on = "self") =>
           /\ SameContent(OtherPost, OtherQ)
           /\ PQLen(OtherPost) = PQLen(OtherQ)

CopyIndependence == [][CopyIndependenceStep]_vars

\* a key stored in both queues was set in the copy to another priority than
\* the one it keeps in the original
CopyIndependenceWitness ==
    /\ other.made
    /\ other.on = "other"
    /\ last.op = "__setitem__"
    /\ last.found = "present"
    /\ Len(heap) = 3
    /\ Lookup(OtherQ, last.args[1]) = <<last.args[2]>>
    /\ Lookup(Self, last.args[1]) # <<last.args[2]>>

\* C13: pushpopitem(k, p) with k not stored returns the pair that additem(k, p)
\* followed by popitem() returns and leaves the queue with the same keys and
\* priorities as they leave it, heap-ordered and with a consistent index: the
\* returned key is not indexed, every remaining key is.
PushPopEquivalenceStep ==
    (last'.op = "pushpopitem" /\ last'.found = "absent") =>
        LET added == AddItem(Self, create_entry, last'.args[1], last'.args[2])
            popped == PopItem(added.q)
        IN  /\ last'.err = ""
            /\ last'.ret = popped.ret
            /\ SameContent(Post, popped.q)
            /\ HeapOrdered(Post, create_entry)
            /\ Indexed(Post)
            /\ ~Contains(Post, last'.ret[1])

PushPopEquivalence == [][PushPopEquivalenceStep]_vars

\* C14: pushpopitem(k, p) on a non-empty queue: when the new entry is worse
\* than or equal to the root, (k, p) is returned and the queue is not modified;
\* otherwise the new entry takes the root's place and is sunk, and the old
\* root is returned.
PushPopContractStep ==
    (last'.op = "pushpopitem" /\ last'.found = "absent" /\ heap # <<>>) =>
        LET k == last'.args[1]
            p == last'.args[2]
            root == At(heap, 0)
        IN  /\ last'.err = ""
            /\ IF ~Better(create_entry, p, root.pkey)
               THEN /\ last'.ret = <<k, p>>
                    /\ Post = Self
               ELSE /\ last'.ret = <<root.dkey, root.pkey>>
                    /\ ~Contains(Post, root.dkey)
                    /\ Lookup(Post, k) = <<p>>
                    /\ \A k2 \in Keys \ {k, root.dkey} : Kept(k2)
                    /\ HeapOrdered(Post, create_entry)
                    /\ Indexed(Post)

PushPopContract == [][PushPopContractStep]_vars

\* the pairs that successive popitem calls return from q until one raises
RECURSIVE PopAll(_)
PopAll(q) ==
    LET r == PopItem(q)
    IN  IF r.err # "" THEN <<>> ELSE <<r.ret>> \o PopAll(r.q)

YieldAll(kind, pairs) == [i \in 1..Len(pairs) |-> Yield(kind, pairs[i])]

\* C15: with no other call interleaved, a traversal by iteritems (iterkeys,
\* itervalues) of a queue of n entries ends after yielding exactly n items, the
\* sequence that n successive popitem calls would return, in priority order;
\* afterwards the queue is empty and a further step yields nothing.  (Each
\* step on a non-empty queue yields and leaves one entry less, the step on the
\* empty queue ends the traversal: it ends with step n + 1.)
TraversalStep ==
    /\ it'.state # "none" =>
           Len(it'.out) + PQLen(Post) = Cardinality(drain_start')
    /\ (it.state = "active" /\ last'.op = "next") =>
           IF heap # <<>>
           THEN /\ last'.err = ""
                /\ it'.state = "active"
                /\ it'.out = Append(it.out, last'.ret[1])
                /\ last'.ret \o YieldAll(it.kind, PopAll(Post))
                       = YieldAll(it.kind, PopAll(Self))
                /\ PQLen(Post) = PQLen(Self) - 1
           ELSE /\ last'.err = "StopIteration"
                /\ it'.state = "finished"
                /\ it'.out = it.out
                /\ Post = Self
    /\ it'.state = "finished" =>
           /\ heap' = <<>>
           /\ position' = EmptyPos
           /\ Len(it'.out) = Cardinality(drain_start')
           /\ it'.out = YieldAll(it'.kind, drain_out')
           /\ {drain_out'[i] : i \in 1..Len(drain_out')} = drain_start'
           /\ \A i, j \in 1..Len(drain_out') :
                  i < j => ~Better(create_entry, drain_out'[j][2], drain_out'[i][2])
           /\ LET further == IterNext(it', Post)
              IN  /\ further.err = "StopIteration"
                  /\ further.ret = <<>>
                  /\ further.q = Post
                  /\ further.g = it'

Traversal == [][TraversalStep]_vars

\* a traversal of three entries whose priorities are not all equal has ended
TraversalWitness ==
    /\ it.state = "finished"
    /\ last.op = "next"
    /\ Len(it.out) = 3
    /\ drain_out[1][2] # drain_out[3][2]

\* C16: sort_by_value(mapping, reverse) returns a permutation of the mapping's
\* items, ordered by value non-decreasing when reverse is false and
\* non-increasing when reverse is true, for every mapping over the bounded keys
\* and values, equal values included.
SortedByValue ==
    (last.op = "sort_by_value" /\ last.found = "returned") =>
        LET mapping == last.args[1]
            reverse == last.args[2]
            sorted == last.ret
        IN  /\ Len(sorted) = Len(mapping)
            /\ {sorted[i] : i \in 1..Len(sorted)} = {mapping[i] : i \in 1..Len(mapping)}
            /\ \A i, j \in 1..Len(sorted) :
                   i < j => IF reverse THEN sorted[i][2] >= sorted[j][2]
                                       ELSE sorted[i][2] <= sorted[j][2]

\* a mapping of three items, two of them with equal values, given in ascending
\* order and sorted in reverse
SortedByValueWitness ==
    /\ last.op = "sort_by_value"
    /\ last.found = "returned"
    /\ last.args[2] = TRUE
    /\ Len(last.ret) = 3
    /\ last.args[1][1][2] < last.args[1][3][2]
    /\ last.ret[1][2] = last.ret[2][2]
    /\ last.ret # last.args[1]

\* C17: a copy keeps the ordering of the original: for a queue built with max
\* ordering, after copy() and calls of set, delete and popitem on the copy, the
\* copy is heap-ordered under the descending ordering and its peek returns an
\* entry of maximal priority.
CopyKeepsOrdering ==
    (other.made /\ create_entry = "_MaxEntry") =>
        /\ HeapOrdered(OtherQ, "_MaxEntry")
        /\ other.heap # <<>> =>
               \A k \in Keys :
                   Contains(OtherQ, k) => Lookup(OtherQ, k)[1] <= Peek(OtherQ).ret[2]

\* the entries in the slots of the subtree of top
SubtreeEntries(q, top) ==
    {At(q.heap, i) : i \in {j \in 0..(Len(q.heap) - 1) : InSubtree(j, top)}}

\* C18: when the subtrees under both children of top are heap-ordered and the
\* index agrees with the list, then after _sink(top) the subtree of top is
\* heap-ordered, the index agrees with the list, the subtree holds the entries
\* it held and no slot outside it is changed; and _heapify leaves a heap-
\* ordered list with a consistent index from any list of distinct keys.
SinkStep ==
    /\ (/\ last'.op = "_sink"
        /\ SubtreeOrdered(Self, create_entry, 2 * last'.args[1] + 1)
        /\ SubtreeOrdered(Self, create_entry, 2 * last'.args[1] + 2)
        /\ Indexed(Self)) =>
           LET top == last'.args[1]
           IN  /\ SubtreeOrdered(Post, create_entry, top)
               /\ Indexed(Post)
               /\ SubtreeEntries(Post, top) = SubtreeEntries(Self, top)
               /\ Len(heap') = Len(heap)
               /\ \A i \in 0..(Len(heap) - 1) :
                      ~InSubtree(i, top) => At(heap', i) = At(heap, i)
    /\ (last'.op = "_heapify" /\ Indexed(Self)) =>
           /\ HeapOrdered(Post, create_entry)
           /\ Indexed(Post)
           /\ Pairs(heap') = Pairs(heap)
           /\ Len(heap') = Len(heap)

SinkRestoresSubtree == [][SinkStep]_vars

\* _sink(1) ran on a list of four with heap-ordered subtrees under slot 1, and
\* it left in slot 1 an entry better than the root, which it did not move
SinkRestoresSubtreeWitness ==
    /\ last.op = "_sink"
    /\ last.args = <<1>>
    /\ last.found = "subheaps"
    /\ Len(heap) = 4
    /\ Better(create_entry, At(heap, 1).pkey, At(heap, 0).pkey)
    /\ Better(create_entry, At(heap, 1).pkey, At(heap, 3).pkey)

\* C19: each step of a destructive traversal yields the entry that is the top
\* of the queue when the step runs, also when the caller has inserted, updated
\* or deleted keys since the step before; the heap property and the index
\* bijection hold between the steps; and the traversal ends at the first step
\* that finds the queue empty.
InterleavedStep ==
    /\ (it.state = "active" /\ last'.op = "next") =>
           IF heap # <<>>
           THEN LET top == Peek(Self).ret
                IN  /\ last'.err = ""
                    /\ last'.ret = <<Yield(it.kind, top)>>
                    /\ \A k \in Keys :
                           Contains(Self, k) =>
                               ~Better(create_entry, Lookup(Self, k)[1], top[2])
                    /\ ~Contains(Post, top[1])
                    /\ \A k \in Keys \ {top[1]} : Kept(k)
                    /\ it'.state = "active"
           ELSE /\ last'.err = "StopIteration"
                /\ last'.ret = <<>>
                /\ it'.state = "finished"
    /\ it.state = "finished" =>
           /\ it'.state = "finished"
           /\ last'.op = "next" => last'.err = "StopIteration" /\ Post = Self
    /\ HeapOrdered(Post, create_entry)
    /\ Indexed(Post)

InterleavedTraversal == [][InterleavedStep]_vars

\* after the caller changed the queue during the traversal, a step yielded the
\* only entry whose priority is the best, and two entries are left
InterleavedTraversalWitness ==
    /\ it.state = "active"
    /\ it.mixed
    /\ last.op = "next"
    /\ last.err = ""
    /\ Len(drain_out) = 1
    /\ Len(heap) = 2
    /\ \A i \in 1..Len(heap) : Better(create_entry, drain_out[1][2], heap[i].pkey)

\* C20: every call of _swim and _sink on a finite list returns: in the loop of
\* _sink pos strictly increases and stays below the length of the list, in the
\* loop of _swim pos strictly decreases and stays at or above top, a running
\* call can always make its next pass, and the call returns with the list the
\* whole call is modelled to leave, which is what construction, set, delete,
\* pop and popitem are composed of.
LoopsTerminate ==
    /\ loop.pc = "sink" =>
           /\ loop.top <= loop.pos
           /\ loop.pos < Len(heap)
           /\ loop.prev # <<>> => loop.pos > loop.prev[1]
           /\ loop.sunk <= loop.pos - loop.top
           /\ ENABLED sink_pass
    /\ loop.pc = "swim" =>
           /\ loop.top <= loop.pos
           /\ loop.pos < Len(heap)
           /\ loop.prev # <<>> => loop.pos < loop.prev[1]
           /\ loop.pos + loop.swum < Len(heap)
           /\ ENABLED swim_pass
    /\ loop.pc = "done" =>
           Self = IF loop.fn = "_sink" THEN Sink(loop.start, loop.arg)
                                       ELSE Swim(loop.start, loop.arg, 0)

\* _sink(0) returned after two passes down and a pass up
LoopsTerminateWitness ==
    /\ loop.pc = "done"
    /\ loop.fn = "_sink"
    /\ loop.arg = 0
    /\ loop.sunk = 2
    /\ loop.swum >= 1
    /\ loop.pos < 3

=============================================================================
